---- MODULE Spec2Model ----
(***************************************************************************)
(* Plant catalog: the `plants` table of streamlit_app.py and the handlers  *)
(* that write it (add form, edit form, update_plant, delete_plant, Excel   *)
(* import).                                                                *)
(*                                                                         *)
(* A column value is NULL (the empty tuple) or Some(v) (a one-element      *)
(* tuple); Some("") is the empty string, which SQLite stores as a value    *)
(* distinct from NULL.                                                     *)
(***************************************************************************)
EXTENDS Integers, Sequences, FiniteSets, TLC

VARIABLES
    plants,   \* the table as the shared connection sees it: id -> row
    seq,      \* sqlite_sequence.seq of the AUTOINCREMENT key
    disk,     \* the last committed [plants, seq]
    imp,      \* the import handler: its position in the row loop, its counters and
              \* (history) the name and outcome of every row handled so far
    ret,      \* what the last handler step did and returned
    everIds   \* history: every id a stored row has ever had

vars == <<plants, seq, disk, imp, ret, everIds>>

\* Bounds of the model.
MaxId == 2
MaxRows == 2

NULL == <<>>
Some(v) == <<v>>

\* A cell value sqlite3 cannot bind (openpyxl yields datetime.time for a time cell).
Unsupported == Some("<datetime.time>")

FormColumns ==
    {"group_name", "russian_name", "latin_name", "acquisition_date",
     "acquisition_place", "supplier", "cost", "location", "pot", "condition"}

ImportColumns == FormColumns \cup {"russian_name_url", "latin_name_url"}

TableColumns == ImportColumns \cup {"created_at"}

\* DEFAULT CURRENT_TIMESTAMP, abstracted to one instant.
CURRENT_TIMESTAMP == Some("now")

SetMax(S) == CHOOSE x \in S : \A y \in S : y <= x

MaxRowid(t) == IF DOMAIN t = {} THEN 0 ELSE SetMax(DOMAIN t)

\* INTEGER PRIMARY KEY without AUTOINCREMENT: one more than the largest rowid in the table.
NewRowidNoAutoincrement(t, s) == MaxRowid(t) + 1

\* INTEGER PRIMARY KEY AUTOINCREMENT: one more than the largest rowid the table ever held.
NewRowid(t, s) == (IF s > MaxRowid(t) THEN s ELSE MaxRowid(t)) + 1

Bindable(vals) == \A c \in DOMAIN vals : vals[c] # Unsupported

\* INSERT INTO plants (<DOMAIN vals>) VALUES (...): unnamed columns take their default.
sql_insert(t, s, vals) ==
    LET id == NewRowid(t, s)
        row == [c \in TableColumns |->
                  IF c \in DOMAIN vals THEN vals[c]
                  ELSE IF c = "created_at" THEN CURRENT_TIMESTAMP ELSE NULL]
    IN [plants |-> [i \in DOMAIN t \cup {id} |-> IF i = id THEN row ELSE t[i]],
        seq |-> id]

\* SQL equality: NULL equals nothing, not even NULL.
sql_eq(a, b) == a # NULL /\ b # NULL /\ a = b

Idle == [phase |-> "idle"]

Init ==
    /\ plants = <<>>
    /\ seq = 0
    /\ disk = [plants |-> <<>>, seq |-> 0]
    /\ imp = Idle
    /\ ret = [op |-> "init"]
    /\ everIds = {}

Commit(t, s) == [plants |-> t, seq |-> s]

Ids(t) == DOMAIN t

(***************************************************************************)
(* The store functions.                                                    *)
(***************************************************************************)

\* add_plant as an upsert on russian_name: a row with the same name is overwritten.
add_plant_Upsert(t, s, plant_data) ==
    IF \E i \in DOMAIN t : t[i]["russian_name"] = plant_data["russian_name"]
    THEN LET old == CHOOSE i \in DOMAIN t :
                       t[i]["russian_name"] = plant_data["russian_name"]
             r == sql_insert([i \in DOMAIN t \ {old} |-> t[i]], s, plant_data)
         IN [plants |-> r.plants, seq |-> r.seq, ok |-> TRUE]
    ELSE LET r == sql_insert(t, s, plant_data)
         IN [plants |-> r.plants, seq |-> r.seq, ok |-> TRUE]

\* add_plant: INSERT of the ten form columns, commit, return True.
add_plant(t, s, plant_data) ==
    LET r == sql_insert(t, s, plant_data)
    IN [plants |-> r.plants, seq |-> r.seq, ok |-> TRUE]

\* The texts the model stores in russian_name, in SQLite's BINARY collation order.
TextOrder == <<"", "a", "b">>

\* ORDER BY russian_name sorts NULL first, then text byte by byte.
NameRank(v) ==
    IF v = NULL THEN 0 ELSE CHOOSE k \in 1..Len(TextOrder) : TextOrder[k] = v[1]

RowBefore(t, i, j) ==
    \/ NameRank(t[i]["russian_name"]) < NameRank(t[j]["russian_name"])
    \/ NameRank(t[i]["russian_name"]) = NameRank(t[j]["russian_name"]) /\ i < j

RECURSIVE SortedIds(_, _)
SortedIds(t, S) ==
    IF S = {} THEN <<>>
    ELSE LET first == CHOOSE i \in S : \A j \in S \ {i} : RowBefore(t, i, j)
         IN <<first>> \o SortedIds(t, S \ {first})

\* get_all_plants: SELECT * FROM plants ORDER BY russian_name. Rows with equal names
\* come in rowid order here; the query does not fix their order.
get_all_plants(t) ==
    LET ids == SortedIds(t, Ids(t))
    IN [k \in 1..Len(ids) |-> [id |-> ids[k], row |-> t[ids[k]]]]

\* How often a name occurs in a listing.
NameCount(listing, name) ==
    Cardinality({k \in 1..Len(listing) : listing[k].row["russian_name"] = name})

\* The row after SET <keys of updated_data>.
SetColumns(row, updated_data) ==
    [c \in TableColumns |-> IF c \in DOMAIN updated_data THEN updated_data[c] ELSE row[c]]

\* UPDATE plants SET <keys> with the WHERE clause dropped: every row is changed.
update_plant_AllRows(t, plant_id, updated_data) ==
    IF DOMAIN updated_data = {} \/ ~(DOMAIN updated_data \subseteq TableColumns)
    THEN [plants |-> t, ok |-> FALSE]
    ELSE [plants |-> [i \in Ids(t) |-> SetColumns(t[i], updated_data)], ok |-> TRUE]

\* update_plant: the SET clause is built from the keys of updated_data, whatever
\* they are. No key at all, a key that is no column, or an id that is NULL or
\* another row's makes execute raise, which is caught and returned as False. An id
\* that matches no row changes nothing, raises nothing, and True is returned.
update_plant(t, plant_id, updated_data) ==
    LET keys == DOMAIN updated_data
        new_id == IF "id" \in keys THEN updated_data["id"] ELSE Some(plant_id)
    IN IF keys = {} \/ ~(keys \subseteq TableColumns \cup {"id"})
       THEN [plants |-> t, ok |-> FALSE]
       ELSE IF plant_id \notin Ids(t)
       THEN [plants |-> t, ok |-> TRUE]
       ELSE IF new_id = NULL \/ (new_id[1] # plant_id /\ new_id[1] \in Ids(t))
       THEN [plants |-> t, ok |-> FALSE]
       ELSE [plants |-> [i \in (Ids(t) \ {plant_id}) \cup {new_id[1]} |->
                           IF i = new_id[1]
                           THEN SetColumns(t[plant_id], updated_data)
                           ELSE t[i]],
             ok |-> TRUE]

\* delete_plant without the existence check: the DELETE runs and True is returned.
delete_plant_NoCheck(t, plant_id) ==
    [plants |-> [i \in Ids(t) \ {plant_id} |-> t[i]], ok |-> TRUE]

\* delete_plant: SELECT the row first; DELETE and True if it is there, else False.
delete_plant(t, plant_id) ==
    IF plant_id \in Ids(t)
    THEN [plants |-> [i \in Ids(t) \ {plant_id} |-> t[i]], ok |-> TRUE]
    ELSE [plants |-> t, ok |-> FALSE]

\* get_plant_groups: SELECT DISTINCT group_name ... WHERE group_name IS NOT NULL.
get_plant_groups(t) == {t[i]["group_name"] : i \in Ids(t)} \ {NULL}

\* search_plants can return the row for some non-empty term: LIKE '%term%' matches
\* neither NULL nor the empty string.
Findable(row) ==
    \/ row["russian_name"] \notin {NULL, Some("")}
    \/ row["latin_name"] \notin {NULL, Some("")}

(***************************************************************************)
(* What the user types.                                                    *)
(***************************************************************************)
AddNames == {"", "a", "b"}
AddLatins == {""}
AddCosts == {5}
Today == "2024-05-20"
EditNames == {"", "b"}
EditLatins == {""}

\* Mappings handed to update_plant: one column, two columns, no column, no such column.
UpdateInputs ==
    {[latin_name |-> NULL],
     [russian_name |-> Some("b"), latin_name |-> Some("")],
     <<>>,
     [nickname |-> Some("x")]}

(***************************************************************************)
(* Tab 3: the add form.                                                    *)
(***************************************************************************)
\* cost if cost > 0 else None
CostOrNone(cost) == IF cost > 0 THEN Some(cost) ELSE NULL

\* The tuple the add form hands to add_plant: the widgets' strings as typed (the
\* fields left blank are empty strings), the date formatted, a zero cost as None.
AddFormData(group_name, russian_name, latin_name, cost) ==
    [group_name |-> Some(group_name),
     russian_name |-> Some(russian_name),
     latin_name |-> Some(latin_name),
     acquisition_date |-> Some(Today),
     acquisition_place |-> Some(""),
     supplier |-> Some(""),
     cost |-> CostOrNone(cost),
     location |-> Some(""),
     pot |-> Some(""),
     condition |-> Some("")]

AddPlantSubmit(group_name, russian_name, latin_name, cost) ==
    /\ imp.phase = "idle"
    /\ IF russian_name = ""
       THEN /\ ret' = [op |-> "add_form", ok |-> FALSE]
            /\ UNCHANGED <<plants, seq, disk, everIds>>
       ELSE /\ seq < MaxId
            /\ LET r == add_plant(plants, seq,
                                  AddFormData(group_name, russian_name, latin_name, cost))
               IN /\ plants' = r.plants
                  /\ seq' = r.seq
                  /\ disk' = Commit(r.plants, r.seq)
                  /\ everIds' = everIds \cup Ids(r.plants)
                  /\ ret' = [op |-> "add_form", ok |-> r.ok, id |-> r.seq,
                             name |-> Some(russian_name),
                             before |-> NameCount(get_all_plants(plants), Some(russian_name))]
    /\ UNCHANGED imp

(***************************************************************************)
(* Tab 2: the edit form and the delete button.                             *)
(***************************************************************************)
\* value=plant[f] or "": what a text widget of the edit form starts with.
Prefill(v) == IF v = NULL THEN "" ELSE v[1]

\* value=float(plant['cost']) if plant['cost'] and notna else 0.0
PrefillCost(v) == IF v = NULL THEN 0 ELSE v[1]

\* for key, value in updated_data.items(): if value == "": updated_data[key] = None
EmptyToNone(text) == IF text = "" THEN NULL ELSE Some(text)

\* The edit form's dictionary: all ten form fields, the untouched ones as prefilled.
EditFormData(row, new_russian, new_latin) ==
    [c \in FormColumns |->
       IF c = "russian_name" THEN EmptyToNone(new_russian)
       ELSE IF c = "latin_name" THEN EmptyToNone(new_latin)
       ELSE IF c = "cost" THEN CostOrNone(PrefillCost(row[c]))
       ELSE EmptyToNone(Prefill(row[c]))]

EditFormSave(id, new_russian, new_latin) ==
    /\ imp.phase = "idle"
    /\ id \in Ids(plants)
    /\ Findable(plants[id])
    /\ IF new_russian = ""
       THEN /\ ret' = [op |-> "edit_form", ok |-> FALSE, id |-> id]
            /\ UNCHANGED <<plants, disk, everIds>>
       ELSE LET r == update_plant(plants, id,
                                  EditFormData(plants[id], new_russian, new_latin))
            IN /\ plants' = r.plants
               /\ disk' = IF r.ok THEN Commit(r.plants, seq) ELSE disk
               /\ everIds' = everIds \cup Ids(r.plants)
               /\ ret' = [op |-> "edit_form", ok |-> r.ok, id |-> id]
    /\ UNCHANGED <<seq, imp>>

\* update_plant called with any id and any mapping.
UpdatePlant(id, updated_data) ==
    /\ imp.phase = "idle"
    /\ LET r == update_plant(plants, id, updated_data)
       IN /\ plants' = r.plants
          /\ disk' = IF r.ok THEN Commit(r.plants, seq) ELSE disk
          /\ everIds' = everIds \cup Ids(r.plants)
          /\ ret' = [op |-> "update_plant", ok |-> r.ok, id |-> id,
                     data |-> updated_data]
    /\ UNCHANGED <<seq, imp>>

\* delete_plant called with any id.
DeletePlant(id) ==
    /\ imp.phase = "idle"
    /\ LET r == delete_plant(plants, id)
       IN /\ plants' = r.plants
          /\ disk' = IF r.ok THEN Commit(r.plants, seq) ELSE disk
          /\ ret' = [op |-> "delete_plant", ok |-> r.ok, id |-> id]
    /\ UNCHANGED <<seq, imp, everIds>>

(***************************************************************************)
(* Tab 5: the Excel import.  The sheet is read row by row: the row an      *)
(* ImportRow step handles is any row a sheet with these columns can hold.  *)
(***************************************************************************)
ReplaceAll == "replace"
AppendMode == "append"

\* The column sets of the uploaded sheets: one with the required column, a column
\* of the catalog and a column the catalog has not, and one without the required
\* column.
SheetColumns == {{"russian_name", "latin_name", "notes"}, {"latin_name"}}

\* What a cell of a column can hold: a name cell is empty or holds a name, a latin
\* cell is empty or holds a value sqlite3 cannot bind.
CellValues(c) ==
    IF c = "russian_name" THEN {NULL, Some("a")}
    ELSE IF c = "latin_name" THEN {NULL, Unsupported}
    ELSE {Some("n")}

\* The rows a sheet with columns cols can hold.
SheetRows(cols) ==
    {row \in [cols -> UNION {CellValues(c) : c \in cols}] :
       \A c \in cols : row[c] \in CellValues(c)}

\* required_columns = ['russian_name']; the columns of them the sheet lacks.
missing_columns(cols) == {"russian_name"} \ cols

\* SELECT id FROM plants WHERE russian_name = ? returns a row.
IsDuplicate(t, name) == \E i \in Ids(t) : sql_eq(t[i]["russian_name"], name)

\* One pass of the row loop whose duplicate check never finds a row.
import_row_NoDedup(t, s, handle_duplicates, row) ==
    LET columns == DOMAIN row \cap ImportColumns
        values == [c \in columns |-> row[c]]
    IN IF ~Bindable(values)
       THEN [plants |-> t, seq |-> s, outcome |-> "error"]
       ELSE LET r == sql_insert(t, s, values)
            IN [plants |-> r.plants, seq |-> r.seq, outcome |-> "imported"]

\* One pass of the row loop whose failed insert undoes the rows inserted before it.
import_row_Rollback(t, s, handle_duplicates, row) ==
    LET columns == DOMAIN row \cap ImportColumns
        values == [c \in columns |-> row[c]]
    IN IF handle_duplicates /\ row["russian_name"] = Unsupported
       THEN [plants |-> t, seq |-> s, outcome |-> "error"]
       ELSE IF handle_duplicates /\ IsDuplicate(t, row["russian_name"])
       THEN [plants |-> t, seq |-> s, outcome |-> "skipped"]
       ELSE IF ~Bindable(values)
       THEN [plants |-> disk.plants, seq |-> s, outcome |-> "error"]
       ELSE LET r == sql_insert(t, s, values)
            IN [plants |-> r.plants, seq |-> r.seq, outcome |-> "imported"]

\* One pass of the row loop whose duplicate is counted as skipped and inserted all
\* the same.
import_row_SkipAfterInsert(t, s, handle_duplicates, row) ==
    LET columns == DOMAIN row \cap ImportColumns
        values == [c \in columns |-> row[c]]
    IN IF handle_duplicates /\ row["russian_name"] = Unsupported
       THEN [plants |-> t, seq |-> s, outcome |-> "error"]
       ELSE IF ~Bindable(values)
       THEN [plants |-> t, seq |-> s, outcome |-> "error"]
       ELSE LET r == sql_insert(t, s, values)
            IN [plants |-> r.plants, seq |-> r.seq,
                outcome |-> IF handle_duplicates /\ IsDuplicate(t, row["russian_name"])
                            THEN "skipped" ELSE "imported"]

\* One pass of the row loop that writes a row over the stored record of its name
\* instead of inserting it.
import_row_Upsert(t, s, handle_duplicates, row) ==
    LET columns == DOMAIN row \cap ImportColumns
        values == [c \in columns |-> row[c]]
    IN IF handle_duplicates /\ row["russian_name"] = Unsupported
       THEN [plants |-> t, seq |-> s, outcome |-> "error"]
       ELSE IF handle_duplicates /\ IsDuplicate(t, row["russian_name"])
       THEN [plants |-> t, seq |-> s, outcome |-> "skipped"]
       ELSE IF ~Bindable(values)
       THEN [plants |-> t, seq |-> s, outcome |-> "error"]
       ELSE IF IsDuplicate(t, row["russian_name"])
       THEN [plants |-> [i \in Ids(t) |->
                           IF sql_eq(t[i]["russian_name"], row["russian_name"])
                           THEN SetColumns(t[i], values) ELSE t[i]],
             seq |-> s, outcome |-> "imported"]
       ELSE LET r == sql_insert(t, s, values)
            IN [plants |-> r.plants, seq |-> r.seq, outcome |-> "imported"]

\* One pass of the row loop: the duplicate check if asked for, the INSERT of the
\* catalog's columns among the sheet's, and any exception caught as a row error.
import_row(t, s, handle_duplicates, row) ==
    LET columns == DOMAIN row \cap ImportColumns
        values == [c \in columns |-> row[c]]
    IN IF handle_duplicates /\ row["russian_name"] = Unsupported
       THEN [plants |-> t, seq |-> s, outcome |-> "error"]
       ELSE IF handle_duplicates /\ IsDuplicate(t, row["russian_name"])
       THEN [plants |-> t, seq |-> s, outcome |-> "skipped"]
       ELSE IF ~Bindable(values)
       THEN [plants |-> t, seq |-> s, outcome |-> "error"]
       ELSE LET r == sql_insert(t, s, values)
            IN [plants |-> r.plants, seq |-> r.seq, outcome |-> "imported"]

\* The ReplaceAll deletion left out.
clear_table_NoDelete(t, s) == [plants |-> t, seq |-> s]

\* DELETE FROM plants: every row goes; sqlite_sequence is left as it is.
clear_table(t, s) == [plants |-> <<>>, seq |-> s]

\* The import button with the ReplaceAll deletion moved before the column check.
ImportStart_DeleteFirst(import_mode, handle_duplicates, cols, n) ==
    /\ imp.phase = "idle"
    /\ LET r == IF import_mode = ReplaceAll
                THEN clear_table(plants, seq)
                ELSE [plants |-> plants, seq |-> seq]
       IN /\ plants' = r.plants
          /\ seq' = r.seq
    /\ IF missing_columns(cols) # {}
       THEN /\ ret' = [op |-> "import", ok |-> FALSE, missing |-> missing_columns(cols),
                       cols |-> cols, mode |-> import_mode]
            /\ UNCHANGED imp
       ELSE /\ imp' = [phase |-> "loop", mode |-> import_mode,
                       dedup |-> handle_duplicates, cols |-> cols, n |-> n,
                       pos |-> 1, imported |-> 0, skipped |-> 0, errors |-> <<>>,
                       log |-> <<>>]
            /\ ret' = [op |-> "import_start", cols |-> cols]
    /\ UNCHANGED <<disk, everIds>>

\* The import button: the required-column check, the ReplaceAll deletion, and the
\* counters set to zero.
ImportStart(import_mode, handle_duplicates, cols, n) ==
    /\ imp.phase = "idle"
    /\ IF missing_columns(cols) # {}
       THEN /\ ret' = [op |-> "import", ok |-> FALSE, missing |-> missing_columns(cols),
                       cols |-> cols, mode |-> import_mode]
            /\ UNCHANGED <<plants, seq, imp>>
       ELSE /\ LET r == IF import_mode = ReplaceAll
                        THEN clear_table(plants, seq)
                        ELSE [plants |-> plants, seq |-> seq]
               IN /\ plants' = r.plants
                  /\ seq' = r.seq
            /\ imp' = [phase |-> "loop", mode |-> import_mode,
                       dedup |-> handle_duplicates, cols |-> cols, n |-> n,
                       pos |-> 1, imported |-> 0, skipped |-> 0, errors |-> <<>>,
                       log |-> <<>>]
            /\ ret' = [op |-> "import_start", cols |-> cols]
    /\ UNCHANGED <<disk, everIds>>

\* for _, row in df_to_import.iterrows(): one row.
ImportRow(row) ==
    /\ imp.phase = "loop"
    /\ imp.pos <= imp.n
    /\ LET r == import_row(plants, seq, imp.dedup, row)
       IN /\ r.seq <= MaxId
          /\ plants' = r.plants
          /\ seq' = r.seq
          /\ everIds' = everIds \cup Ids(r.plants)
          /\ imp' = [imp EXCEPT
                       !.pos = @ + 1,
                       !.imported = IF r.outcome = "imported" THEN @ + 1 ELSE @,
                       !.skipped = IF r.outcome = "skipped" THEN @ + 1 ELSE @,
                       !.errors = IF r.outcome = "error" THEN Append(@, imp.pos + 1) ELSE @,
                       !.log = Append(@, [name |-> row["russian_name"],
                                                  outcome |-> r.outcome])]
          /\ ret' = [op |-> "import_row", outcome |-> r.outcome,
                     name |-> row["russian_name"]]
    /\ UNCHANGED disk

\* conn.commit() after the loop, and the result summary.
ImportCommit ==
    /\ imp.phase = "loop"
    /\ imp.pos > imp.n
    /\ disk' = Commit(plants, seq)
    /\ ret' = [op |-> "import", ok |-> TRUE, imported |-> imp.imported,
               skipped |-> imp.skipped, errors |-> imp.errors]
    /\ imp' = Idle
    /\ UNCHANGED <<plants, seq, everIds>>

Next ==
    \/ \E g \in {""} \cup {Prefill(x) : x \in get_plant_groups(plants)},
          r \in AddNames, l \in AddLatins, c \in AddCosts :
          AddPlantSubmit(g, r, l, c)
    \/ \E id \in Ids(plants) :
          \E r \in {Prefill(plants[id]["russian_name"])} \cup EditNames,
             l \in {Prefill(plants[id]["latin_name"])} \cup EditLatins :
             EditFormSave(id, r, l)
    \/ \E id \in 1..MaxId, d \in UpdateInputs : UpdatePlant(id, d)
    \/ \E id \in 1..MaxId : DeletePlant(id)
    \/ \E m \in {AppendMode, ReplaceAll}, h \in BOOLEAN, cols \in SheetColumns, n \in 0..MaxRows :
          ImportStart(m, h, cols, n)
    \/ /\ imp.phase = "loop"
       /\ \E row \in SheetRows(imp.cols) : ImportRow(row)
    \/ ImportCommit

Spec == Init /\ [][Next]_vars

(***************************************************************************)
(* The claims.                                                             *)
(***************************************************************************)
OptionalColumns == ImportColumns \ {"russian_name"}

\* C1: update_plant called with an id that matches no stored record returns
\* False, and the stored records are unchanged by the call.
C1_UpdateMissingReturnsFalse ==
    [][(ret'.op = "update_plant" /\ ret'.id \notin Ids(plants))
         => (ret'.ok = FALSE /\ plants' = plants)]_vars

\* C2: delete_plant on a stored id returns True and removes the record; on an id
\* that is not stored it returns False and leaves the store unchanged; so called
\* a second time right after a successful call on the same id, it returns False.
C2_DeleteTwice ==
    [][ret'.op = "delete_plant" =>
         /\ ret'.id \in Ids(plants) =>
              (ret'.ok = TRUE /\ Ids(plants') = Ids(plants) \ {ret'.id})
         /\ ret'.id \notin Ids(plants) => (ret'.ok = FALSE /\ plants' = plants)
         /\ (ret.op = "delete_plant" /\ ret.id = ret'.id /\ ret.ok = TRUE)
              => ret'.ok = FALSE]_vars

\* A delete that returned False for an id that had been stored and is gone.
C2_Witness ==
    /\ ret.op = "delete_plant"
    /\ ret.ok = FALSE
    /\ ret.id \in everIds \ Ids(plants)

\* C3: every stored (committed) record has a russian_name that is neither NULL
\* nor the empty string.
C3_RussianNameNeverEmpty ==
    \A i \in Ids(disk.plants) : disk.plants[i]["russian_name"] \notin {NULL, Some("")}

\* C4: a record persisted by the add form or by the edit form holds no empty
\* string in an optional field.
C4_FormsStoreNoEmptyString ==
    [][(ret'.op \in {"add_form", "edit_form"} /\ ret'.ok = TRUE)
         => \A c \in OptionalColumns : plants'[ret'.id][c] # Some("")]_vars

\* C5: the id of a newly stored record differs from the id of every record that
\* was ever stored before, deleted or wiped by ReplaceAll or not.
C5_IdsNeverReused ==
    [][\A i \in Ids(plants') \ Ids(plants) : i \notin everIds]_vars

\* A record was added after an earlier record had gone.
C5_Witness ==
    /\ ret.op \in {"add_form", "import_row"}
    /\ Ids(plants) # {}
    /\ everIds \ Ids(plants) # {}
    /\ SetMax(Ids(plants)) > SetMax(everIds \ Ids(plants))

\* C6 as stated: after a successful insert, get_all_plants holds the new record's
\* russian_name exactly once.
C6_NameExactlyOnce ==
    (ret.op = "add_form" /\ ret.ok = TRUE)
        => NameCount(get_all_plants(plants), ret.name) = 1

\* C6 amended: after a successful insert, get_all_plants holds exactly one row
\* with the new id, that row carries the inserted russian_name, and the name
\* occurs once more than before the insert (so exactly once when no stored
\* record had it).
C6_NewRowOnceNameOnceMore ==
    (ret.op = "add_form" /\ ret.ok = TRUE) =>
        LET listing == get_all_plants(plants)
        IN /\ Cardinality({k \in 1..Len(listing) : listing[k].id = ret.id}) = 1
           /\ \A k \in 1..Len(listing) :
                listing[k].id = ret.id => listing[k].row["russian_name"] = ret.name
           /\ NameCount(listing, ret.name) = ret.before + 1

\* An insert of a name that a stored record already had.
C6_Witness ==
    ret.op = "add_form" /\ ret.ok = TRUE /\ ret.before = 1

\* C7: update_plant on a stored id leaves every field it was not given, and
\* every other record, as they were, and when it returns True the fields it was
\* given hold the given values.
C7_UpdateFrame ==
    [][(ret'.op = "update_plant" /\ ret'.id \in Ids(plants)) =>
         /\ Ids(plants') = Ids(plants)
         /\ \A i \in Ids(plants), c \in TableColumns :
              (i # ret'.id \/ c \notin DOMAIN ret'.data)
                  => plants'[i][c] = plants[i][c]
         /\ ret'.ok = TRUE =>
              \A c \in DOMAIN ret'.data : plants'[ret'.id][c] = ret'.data[c]]_vars

\* A two-column update that changed one of two stored records.
C7_Witness ==
    /\ ret.op = "update_plant"
    /\ ret.ok = TRUE
    /\ ret.id \in Ids(plants)
    /\ Cardinality(Ids(plants)) = 2
    /\ Cardinality(DOMAIN ret.data) = 2
    /\ \E j \in Ids(plants) : plants[j]["russian_name"] # plants[ret.id]["russian_name"]

\* The table the row loop started on: the committed one, emptied by ReplaceAll.
LoopStart == IF imp.mode = ReplaceAll THEN <<>> ELSE disk.plants

\* C8: with the duplicate check on, a row is skipped exactly when it has a
\* russian_name and the table, rows inserted earlier in the batch included, holds
\* a record of that name as the row is handled (a row without a name has no name
\* to share and is never skipped); a skipped row is counted as skipped and not
\* inserted; and two rows that share their name with each other and with a record
\* the loop started on end as imported = 0, skipped = 2.
C8_DedupRowByRow ==
    /\ [][(ret'.op = "import_row" /\ imp.dedup) =>
            /\ ret'.outcome = "skipped"
                 <=> /\ ret'.name # NULL
                     /\ \E i \in Ids(plants) : plants[i]["russian_name"] = ret'.name
            /\ ret'.outcome = "skipped" =>
                 /\ plants' = plants
                 /\ imp'.skipped = imp.skipped + 1
                 /\ imp'.imported = imp.imported
            /\ ret'.outcome # "skipped" => imp'.skipped = imp.skipped]_vars
    /\ [][(/\ ret'.op = "import"
           /\ ret'.ok = TRUE
           /\ imp.dedup
           /\ imp.n = 2
           /\ imp.log[1].name # NULL
           /\ imp.log[1].name = imp.log[2].name
           /\ \E i \in Ids(LoopStart) : LoopStart[i]["russian_name"] = imp.log[1].name)
            => (ret'.imported = 0 /\ ret'.skipped = 2)]_vars

\* An import of two rows that skipped both.
C8_Witness ==
    ret.op = "import" /\ ret.ok = TRUE /\ ret.imported = 0 /\ ret.skipped = 2

ImportedNames == {imp.log[k].name : k \in {j \in 1..Len(imp.log) : imp.log[j].outcome = "imported"}}

\* C9: after an import in ReplaceAll mode on a non-empty table, get_all_plants
\* returns exactly the rows the batch imported: as many rows as were counted as
\* imported, none with the id of a record stored before, and each name as often
\* as rows of that name were imported.
C9_ReplaceAllExactly ==
    [][(/\ ret'.op = "import"
        /\ ret'.ok = TRUE
        /\ imp.mode = ReplaceAll
        /\ Ids(disk.plants) # {}) =>
         LET listing == get_all_plants(disk'.plants)
         IN /\ Len(listing) = ret'.imported
            /\ \A k \in 1..Len(listing) : listing[k].id \notin Ids(disk.plants)
            /\ \A name \in ImportedNames \cup {listing[k].row["russian_name"] : k \in 1..Len(listing)} :
                 NameCount(listing, name) =
                   Cardinality({k \in 1..Len(imp.log) :
                                  imp.log[k].outcome = "imported" /\ imp.log[k].name = name})]_vars

\* A ReplaceAll import over a non-empty table, all rows handled, one imported.
C9_Witness ==
    /\ imp.phase = "loop"
    /\ imp.mode = ReplaceAll
    /\ imp.pos > imp.n
    /\ imp.imported >= 1
    /\ Ids(disk.plants) # {}

\* C10: a row whose insert fails is recorded as a row error and nothing else
\* changes: the rows inserted before stay, the loop goes on to the next row, and
\* the batch is committed only after every row has been handled.
C10_RowErrorDoesNotAbort ==
    /\ [][(ret'.op = "import_row" /\ ret'.outcome = "error") =>
            /\ plants' = plants
            /\ imp'.phase = "loop"
            /\ imp'.pos = imp.pos + 1
            /\ imp'.errors = Append(imp.errors, imp.pos + 1)
            /\ imp'.imported = imp.imported
            /\ imp'.skipped = imp.skipped]_vars
    /\ [][(ret'.op = "import" /\ ret'.ok = TRUE) =>
            /\ imp.pos = imp.n + 1
            /\ ret'.imported + ret'.skipped + Len(ret'.errors) = imp.n
            /\ plants' = plants
            /\ disk'.plants = plants]_vars

\* A committed import whose first row failed and whose second row was inserted.
C10_Witness ==
    ret.op = "import" /\ ret.ok = TRUE /\ ret.errors = <<2>> /\ ret.imported = 1

\* C11: an import of a sheet without the russian_name column reports the missing
\* column and changes nothing: no row is inserted, no record is deleted (in
\* ReplaceAll mode too), nothing is committed and the row loop is not entered.
C11_MissingColumnChangesNothing ==
    [][(/\ imp.phase = "idle"
        /\ ret'.op \in {"import", "import_start"}
        /\ "russian_name" \notin ret'.cols) =>
         /\ ret'.op = "import"
         /\ ret'.ok = FALSE
         /\ ret'.missing = {"russian_name"}
         /\ UNCHANGED <<plants, seq, disk, imp, everIds>>]_vars

\* A ReplaceAll import without the required column, refused over a non-empty table.
C11_Witness ==
    /\ ret.op = "import"
    /\ ret.ok = FALSE
    /\ ret.mode = ReplaceAll
    /\ "russian_name" \in ret.missing
    /\ Ids(plants) # {}

(***************************************************************************)
(* Queries: the search box and the filter tab.  Text that is matched       *)
(* character by character is a sequence of characters; "zh" and "ZH" stand *)
(* for the Cyrillic letters zhe, small and capital.                        *)
(***************************************************************************)

\* The case folding SQLite's LIKE applies: ASCII letters only.
sqlite_fold(c) == IF c = "A" THEN "a" ELSE IF c = "O" THEN "o" ELSE c

\* Case folding over the whole alphabet.
unicode_fold(c) == IF c = "ZH" THEN "zh" ELSE sqlite_fold(c)

\* X LIKE pattern for text X: % matches any run of characters, _ any one character.
RECURSIVE like(_, _)
like(pattern, text) ==
    IF pattern = <<>> THEN text = <<>>
    ELSE IF Head(pattern) = "%"
         THEN like(Tail(pattern), text) \/ (text # <<>> /\ like(pattern, Tail(text)))
    ELSE IF text = <<>> THEN FALSE
    ELSE /\ Head(pattern) = "_" \/ sqlite_fold(Head(pattern)) = sqlite_fold(Head(text))
         /\ like(Tail(pattern), Tail(text))

\* column LIKE ? in a WHERE clause: NULL LIKE anything is not true.
sql_like(value, pattern) == value # NULL /\ like(pattern, value[1])

\* f"%{term}%"
search_pattern(term) == <<"%">> \o term \o <<"%">>

\* search_plants: the ids of the rows the query selects (ORDER BY russian_name
\* arranges the rows and selects none).
search_plants(t, search_term) ==
    {i \in Ids(t) : \/ sql_like(t[i]["russian_name"], search_pattern(search_term))
                    \/ sql_like(t[i]["latin_name"], search_pattern(search_term))}

\* The ids of the rows of get_all_plants: the query has no WHERE clause, and ORDER BY
\* leaves no row out.
ListAll(t) == Ids(t)

\* A name of the script: not assigned, or assigned value v.
Unbound == <<>>
Bound(v) == <<v>>

\* The first entry of both select boxes (the Russian word for "all").
All == "<all>"

\* The stored acquisition dates pd.to_datetime accepts: days, as numbers.
ValidDates(t) == {t[i]["acquisition_date"][1] : i \in {j \in Ids(t) : t[j]["acquisition_date"] # NULL}}

\* What the user asks of the filter tab: for each predicate NULL or a value; the
\* keyword is a text, empty for none.
NoFilters ==
    [group |-> NULL, dates |-> NULL, supplier |-> NULL, condition |-> <<>>,
     min |-> NULL, max |-> NULL]

\* The widgets of the filter tab after the user has set them as q says, over table t.
\* The date inputs are drawn only when some stored date is valid, the supplier box
\* only when the table has rows; both number inputs start at 0.
FilterWidgets(t, q) ==
    [selected_group    |-> IF q.group = NULL THEN All ELSE q.group[1],
     use_date_filter   |-> q.dates # NULL /\ ValidDates(t) # {},
     start_date        |-> IF q.dates # NULL /\ ValidDates(t) # {} THEN Bound(q.dates[1][1]) ELSE Unbound,
     end_date          |-> IF q.dates # NULL /\ ValidDates(t) # {} THEN Bound(q.dates[1][2]) ELSE Unbound,
     selected_supplier |-> IF Ids(t) = {} THEN Unbound
                           ELSE Bound(IF q.supplier = NULL THEN All ELSE q.supplier[1]),
     condition_filter  |-> q.condition,
     min_price         |-> IF q.min = NULL THEN 0 ELSE q.min[1],
     max_price         |-> IF q.max = NULL THEN 0 ELSE q.max[1]]

\* The WHERE clause the filter button builds from the widgets, on one row.
FilterWhere(row, w) ==
    /\ (w.selected_group # "" /\ w.selected_group # All) =>
          sql_eq(row["group_name"], Some(w.selected_group))
    /\ (w.use_date_filter /\ w.start_date # Unbound /\ w.end_date # Unbound) =>
          /\ row["acquisition_date"] # NULL
          /\ w.start_date[1] <= row["acquisition_date"][1]
          /\ row["acquisition_date"][1] <= w.end_date[1]
    /\ (w.selected_supplier[1] # "" /\ w.selected_supplier[1] # All) =>
          sql_eq(row["supplier"], Some(w.selected_supplier[1]))
    /\ w.condition_filter # <<>> =>
          sql_like(row["condition"], search_pattern(w.condition_filter))
    /\ w.min_price > 0 => (row["cost"] # NULL /\ row["cost"][1] >= w.min_price)
    /\ w.max_price > 0 => (row["cost"] # NULL /\ row["cost"][1] <= w.max_price)

\* The filter button.  Reading selected_supplier while it is unbound raises NameError
\* and the run of the script ends without a result.
FilterQuery(t, w) ==
    IF w.selected_supplier = Unbound
    THEN [raised |-> "NameError", ids |-> {}]
    ELSE [raised |-> "", ids |-> {i \in Ids(t) : FilterWhere(t[i], w)}]

\* Bounds of the query model: the rows of the table searched.
MaxStore == 2

QueryRow(russian, latin, group, supplier, date, condition, cost) ==
    [c \in TableColumns |->
       IF c = "russian_name" THEN russian
       ELSE IF c = "latin_name" THEN latin
       ELSE IF c = "group_name" THEN group
       ELSE IF c = "supplier" THEN supplier
       ELSE IF c = "acquisition_date" THEN date
       ELSE IF c = "condition" THEN condition
       ELSE IF c = "cost" THEN cost
       ELSE IF c = "created_at" THEN CURRENT_TIMESTAMP
       ELSE NULL]

\* Rows an import can have stored.
QueryRecords ==
    {QueryRow(Some(<<"ZH", "a">>), NULL, Some("g"), Some("s"), Some(1), Some(<<"o", "k">>), Some(0)),
     QueryRow(Some(<<"a", "b">>), Some(<<"A">>), Some("h"), NULL, Some(2), Some(<<"O", "_">>), Some(5)),
     QueryRow(Some(<<"b">>), Some(<<"a", "_">>), Some("g"), Some("t"), Some(2), Some(<<"k">>), Some(10)),
     QueryRow(NULL, NULL, NULL, Some("s"), NULL, NULL, NULL)}

QueryStores == UNION {[1..n -> QueryRecords] : n \in 0..MaxStore}

SearchTerms == {<<>>, <<"a">>, <<"zh">>, <<"_">>, <<"a", "b">>}

ConditionTerms == {<<>>, <<"o">>, <<"_">>}

Prices == {0, 5}

\* What the widgets let the user ask over table t.
FilterInputs(t) ==
    [group     : {NULL} \cup get_plant_groups(t),
     dates     : {NULL} \cup {Some(p) : p \in {x \in ValidDates(t) \X ValidDates(t) : x[1] <= x[2]}},
     supplier  : {NULL} \cup ({t[i]["supplier"] : i \in Ids(t)} \ {NULL}),
     condition : ConditionTerms,
     min       : {NULL} \cup {Some(m) : m \in Prices},
     max       : {NULL} \cup {Some(m) : m \in Prices}]

InitQuery ==
    /\ plants \in QueryStores
    /\ seq = Len(plants)
    /\ disk = Commit(plants, seq)
    /\ imp = Idle
    /\ ret = [op |-> "init"]
    /\ everIds = Ids(plants)

\* The search box with a term typed in.
Search(search_term) ==
    /\ ret' = [op |-> "search", term |-> search_term, ids |-> search_plants(plants, search_term)]
    /\ UNCHANGED <<plants, seq, disk, imp, everIds>>

\* The filter button pressed with the widgets set as q says.
ApplyFilters(q) ==
    /\ ret' = [op |-> "filter", q |-> q,
               result |-> FilterQuery(plants, FilterWidgets(plants, q))]
    /\ UNCHANGED <<plants, seq, disk, imp, everIds>>

NextQuery ==
    \/ \E term \in SearchTerms : Search(term)
    \/ \E q \in FilterInputs(plants) : ApplyFilters(q)

SpecQuery == InitQuery /\ [][NextQuery]_vars

(***************************************************************************)
(* Claims about the queries.                                               *)
(***************************************************************************)

\* term occurs in text as a run of consecutive characters, compared after fold.
Contains(text, term, fold(_)) ==
    \E k \in 0..(Len(text) - Len(term)) :
       \A j \in 1..Len(term) : fold(text[k + j]) = fold(term[j])

\* C12: the filter button pressed with no predicate chosen returns the records
\* ListAll returns, whatever the table holds.
C12_NoPredicatesIsListAll ==
    (ret.op = "filter" /\ ret.q = NoFilters) =>
        /\ ret.result.raised = ""
        /\ ret.result.ids = ListAll(plants)

\* The row satisfies every predicate q supplies: the group and the supplier exactly,
\* the date within the range, the keyword as a substring of the condition (ASCII
\* letters compared without case), the cost within the bounds.
Satisfies(row, q) ==
    /\ q.group # NULL => row["group_name"] = q.group
    /\ q.supplier # NULL => row["supplier"] = q.supplier
    /\ q.dates # NULL =>
          /\ row["acquisition_date"] # NULL
          /\ q.dates[1][1] <= row["acquisition_date"][1]
          /\ row["acquisition_date"][1] <= q.dates[1][2]
    /\ q.condition # <<>> =>
          /\ row["condition"] # NULL
          /\ Contains(row["condition"][1], q.condition, sqlite_fold)
    /\ q.min # NULL => (row["cost"] # NULL /\ row["cost"][1] >= q.min[1])
    /\ q.max # NULL => (row["cost"] # NULL /\ row["cost"][1] <= q.max[1])

\* C13: whatever subset of the predicates is supplied, the filter returns exactly
\* the stored records that satisfy all of them: none that fails one, all that
\* satisfy every one.
C13_FilterIsConjunction ==
    ret.op = "filter" =>
        /\ ret.result.raised = ""
        /\ ret.result.ids = {i \in Ids(plants) : Satisfies(plants[i], ret.q)}

\* C14: with a minimum alone, a maximum alone or both, each of any value from 0 up,
\* and no other predicate, the filter returns exactly the records whose cost is at
\* least the minimum and at most the maximum.
C14_CostBounds ==
    (/\ ret.op = "filter"
     /\ ret.q.group = NULL /\ ret.q.dates = NULL
     /\ ret.q.supplier = NULL /\ ret.q.condition = <<>>
     /\ (ret.q.min # NULL \/ ret.q.max # NULL)) =>
        /\ ret.result.raised = ""
        /\ ret.result.ids =
             {i \in Ids(plants) :
                /\ plants[i]["cost"] # NULL
                /\ ret.q.min # NULL => plants[i]["cost"][1] >= ret.q.min[1]
                /\ ret.q.max # NULL => plants[i]["cost"][1] <= ret.q.max[1]}

\* The name holds term as a substring, letters compared without case.
NameContains(name, term) == name # NULL /\ Contains(name[1], term, unicode_fold)

\* C15: a search returns exactly the records whose Russian or Latin name contains
\* the term, letters compared without case; the empty term returns every record,
\* those without any name included.
C15_SearchIsSubstringMatch ==
    ret.op = "search" =>
        ret.ids = {i \in Ids(plants) :
                     \/ ret.term = <<>>
                     \/ NameContains(plants[i]["russian_name"], ret.term)
                     \/ NameContains(plants[i]["latin_name"], ret.term)}

(***************************************************************************)
(* The spreadsheet normalizer: excel_transform.py (fixed columns) and      *)
(* extract_hyperlinks_from_excel (header row).  A cell has a value and a   *)
(* hyperlink.  A value is NULL or a string or a number, kept with the      *)
(* characters str() gives it; a hyperlink is NULL or Some(target), and the *)
(* target is NULL (a link inside the workbook) or Some(characters).        *)
(***************************************************************************)

Str(chars) == [type |-> "str", chars |-> chars]
Num(chars) == [type |-> "num", chars |-> chars]

Cell(value, hyperlink) == [value |-> value, hyperlink |-> hyperlink]

NoLink == NULL
LinkTo(target) == Some(target)

\* Python truth of a cell value: None and "" are falsy (the numbers here are not 0).
Truthy(value) == value # NULL /\ value.chars # <<>>

\* cell.hyperlink.target if cell.hyperlink else None
hyperlink_target(cell) ==
    IF cell.hyperlink = NULL \/ cell.hyperlink[1] = NULL THEN NULL
    ELSE Str(cell.hyperlink[1][1])

\* The matches of \[(.*?)\]\((.*?)\) in text: <<i, j, k>> with "[" at i, "](" at j
\* and ")" at k.
re_matches(text) ==
    {m \in (1..Len(text)) \X (1..Len(text)) \X (1..Len(text)) :
        /\ m[1] < m[2] /\ m[2] + 1 < m[3]
        /\ text[m[1]] = "["
        /\ text[m[2]] = "]" /\ text[m[2] + 1] = "("
        /\ text[m[3]] = ")"}

\* re.search: the leftmost match, each group as short as it can be.
re_search(text) ==
    IF re_matches(text) = {} THEN NULL
    ELSE LET m == CHOOSE x \in re_matches(text) :
                     \A y \in re_matches(text) :
                        \/ x[1] < y[1]
                        \/ x[1] = y[1] /\ x[2] < y[2]
                        \/ x[1] = y[1] /\ x[2] = y[2] /\ x[3] <= y[3]
         IN Some([label |-> SubSeq(text, m[1] + 1, m[2] - 1),
                  url   |-> SubSeq(text, m[2] + 2, m[3] - 1)])

HasChar(text, c) == \E k \in 1..Len(text) : text[k] = c

\* excel_transform.py, lines 22-37: the text and the url of one linkable cell.
separate(cell) ==
    LET text == cell.value
        url  == hyperlink_target(cell)
    IN IF /\ ~Truthy(url) /\ Truthy(text)
          /\ HasChar(text.chars, "[") /\ HasChar(text.chars, "]")
          /\ re_search(text.chars) # NULL
       THEN [text |-> Str(re_search(text.chars)[1].label),
             url  |-> Str(re_search(text.chars)[1].url)]
       ELSE [text |-> text, url |-> url]

\* The width of the fixed layout: row[0] .. row[9].
LegacyWidth == 10

\* excel_transform.py on one row: the two loops together.
transform_row(row) ==
    [russian_name      |-> separate(row[2]).text,
     russian_name_url  |-> separate(row[2]).url,
     latin_name        |-> separate(row[3]).text,
     latin_name_url    |-> separate(row[3]).url,
     group_name        |-> row[1].value,
     acquisition_date  |-> row[4].value,
     acquisition_place |-> row[5].value,
     supplier          |-> row[6].value,
     cost              |-> row[7].value,
     location          |-> row[8].value,
     pot               |-> row[9].value,
     condition         |-> row[LegacyWidth].value]

\* excel_transform.py: one record appended for each row of ws.iter_rows(min_row=2).
RECURSIVE excel_transform(_)
excel_transform(rows) ==
    IF rows = <<>> THEN <<>>
    ELSE <<transform_row(Head(rows))>> \o excel_transform(Tail(rows))

\* f"{header}_url"
UrlKey(header) ==
    CASE header = "russian_name" -> "russian_name_url"
      [] header = "latin_name" -> "latin_name_url"
      [] header = "russian_name_url" -> "russian_name_url_url"

\* d[key] = value
DictSet(d, key, value) == [x \in DOMAIN d \cup {key} |-> IF x = key THEN value ELSE d[x]]

\* The inner loop of extract_hyperlinks_from_excel from column k on.
RECURSIVE row_data(_, _, _, _)
row_data(headers, row, k, d) ==
    IF k > Len(row) THEN d
    ELSE LET header == IF k <= Len(headers) THEN headers[k] ELSE ""
             d1     == DictSet(d, header, row[k].value)
         IN IF header = "" THEN row_data(headers, row, k + 1, d)
            ELSE IF Truthy(hyperlink_target(row[k]))
                 THEN row_data(headers, row, k + 1,
                               DictSet(d1, UrlKey(header), hyperlink_target(row[k])))
                 ELSE row_data(headers, row, k + 1, d1)

\* The outer loop with rows that hold no value left out.
RECURSIVE extract_rows_SkipEmpty(_, _)
extract_rows_SkipEmpty(headers, rows) ==
    IF rows = <<>> THEN <<>>
    ELSE (IF \A k \in 1..Len(Head(rows)) : Head(rows)[k].value = NULL
          THEN <<>> ELSE <<row_data(headers, Head(rows), 1, <<>>)>>)
         \o extract_rows_SkipEmpty(headers, Tail(rows))

\* The outer loop: hyperlinks_data.append(row_data) for each row.
RECURSIVE extract_rows(_, _)
extract_rows(headers, rows) ==
    IF rows = <<>> THEN <<>>
    ELSE <<row_data(headers, Head(rows), 1, <<>>)>> \o extract_rows(headers, Tail(rows))

\* pd.DataFrame(list of dicts): the columns are the keys of all rows, a missing key
\* is an absent value.
DataFrame(records) ==
    LET columns == UNION {DOMAIN records[k] : k \in 1..Len(records)}
    IN [k \in 1..Len(records) |->
          [c \in columns |-> IF c \in DOMAIN records[k] THEN records[k][c] ELSE NULL]]

extract_hyperlinks_from_excel(headers, rows) == DataFrame(extract_rows(headers, rows))

\* row.get(column): absent when the frame has no such column.
Field(record, column) == IF column \in DOMAIN record THEN record[column] ELSE NULL

\* Bound of the normalizer model: the data rows of a sheet.
MaxSheetRows == 2

\* The characters of the spreadsheet texts.
Markdown == <<"[", "R", "]", "(", "v", ")">>
Target == <<"u">>

\* The cells of a linkable column.
LinkableCells ==
    {Cell(NULL, NoLink),
     Cell(Str(<<"R">>), NoLink),
     Cell(Str(<<"R">>), LinkTo(Some(Target))),
     Cell(Str(Markdown), NoLink),
     Cell(Str(Markdown), LinkTo(Some(Target))),
     Cell(Str(Markdown), LinkTo(NULL)),
     Cell(Num(<<"7">>), NoLink),
     Cell(Str(<<"[", "R", "]">>), NoLink)}

LatinCells == {Cell(NULL, NoLink), Cell(Str(<<"L">>), NoLink)}

PlainCells == {Cell(NULL, NoLink), Cell(Str(<<"x">>), NoLink)}

\* Rows of the fixed layout: the ten columns of plants_raw.xlsx.
LegacyRows ==
    {[c \in 1..LegacyWidth |-> IF c = 2 THEN r ELSE IF c = 3 THEN l ELSE o] :
        r \in LinkableCells, l \in LatinCells, o \in PlainCells}

\* Header rows: the two name columns, and the layout of the import template, which
\* has a russian_name_url column of its own.
HeaderRows ==
    {<<"russian_name", "latin_name">>, <<"russian_name", "russian_name_url", "latin_name">>}

CellsUnder(header) ==
    IF header = "russian_name" THEN LinkableCells
    ELSE IF header = "latin_name" THEN LatinCells
    ELSE PlainCells

RowsUnder(headers) ==
    {row \in [1..Len(headers) -> LinkableCells \cup LatinCells \cup PlainCells] :
        \A k \in 1..Len(headers) : row[k] \in CellsUnder(headers[k])}

SheetsOf(rows) == UNION {[1..n -> rows] : n \in 0..MaxSheetRows}

\* A workbook is on disk: plants_raw.xlsx, or an uploaded file.
InitNormalizer ==
    /\ plants = <<>>
    /\ seq = 0
    /\ disk = [plants |-> <<>>, seq |-> 0]
    /\ \/ \E rows \in SheetsOf(LegacyRows) :
             imp = [phase |-> "file", layout |-> "fixed", headers |-> <<>>, rows |-> rows]
       \/ \E headers \in HeaderRows : \E rows \in SheetsOf(RowsUnder(headers)) :
             imp = [phase |-> "file", layout |-> "headers", headers |-> headers, rows |-> rows]
    /\ ret = [op |-> "init"]
    /\ everIds = {}

\* python excel_transform.py
ExcelTransform ==
    /\ imp.phase = "file" /\ imp.layout = "fixed"
    /\ ret' = [op |-> "excel_transform", out |-> excel_transform(imp.rows)]
    /\ UNCHANGED <<plants, seq, disk, imp, everIds>>

\* The import tab reads the uploaded file.
ExtractHyperlinks ==
    /\ imp.phase = "file" /\ imp.layout = "headers"
    /\ ret' = [op |-> "extract", out |-> extract_hyperlinks_from_excel(imp.headers, imp.rows)]
    /\ UNCHANGED <<plants, seq, disk, imp, everIds>>

NextNormalizer == ExcelTransform \/ ExtractHyperlinks

SpecNormalizer == InitNormalizer /\ [][NextNormalizer]_vars

(***************************************************************************)
(* Claims about the normalizer.                                            *)
(***************************************************************************)

LinkableColumns == {"russian_name", "latin_name"}

Normalized == ret.op \in {"excel_transform", "extract"}

\* The cell of data row k that holds the linkable field.
SourceCell(k, column) ==
    IF imp.layout = "fixed"
    THEN imp.rows[k][IF column = "russian_name" THEN 2 ELSE 3]
    ELSE imp.rows[k][CHOOSE c \in 1..Len(imp.headers) : imp.headers[c] = column]

\* C16: on both pathways a linkable cell with a native hyperlink to U and value T
\* comes out as text T and url U, whatever T is, a T of the form [label](url)
\* included.
C16_NativeHyperlinkWins ==
    Normalized =>
        \A k \in 1..Len(imp.rows) : \A column \in LinkableColumns :
           LET cell == SourceCell(k, column)
           IN (cell.hyperlink # NULL /\ cell.hyperlink[1] # NULL) =>
                 /\ k <= Len(ret.out)
                 /\ Field(ret.out[k], column) = cell.value
                 /\ Field(ret.out[k], UrlKey(column)) = Str(cell.hyperlink[1][1])

\* C17: on every pathway a linkable cell without a native hyperlink whose string
\* holds [label](url) comes out as text label and url url, taken from the first
\* occurrence with the shortest groups.
C17_MarkdownFallback ==
    Normalized =>
        \A k \in 1..Len(imp.rows) : \A column \in LinkableColumns :
           LET cell == SourceCell(k, column)
           IN (/\ cell.hyperlink = NULL
               /\ cell.value # NULL
               /\ cell.value.type = "str"
               /\ re_search(cell.value.chars) # NULL) =>
                 /\ k <= Len(ret.out)
                 /\ Field(ret.out[k], column) = Str(re_search(cell.value.chars)[1].label)
                 /\ Field(ret.out[k], UrlKey(column)) = Str(re_search(cell.value.chars)[1].url)

\* C18: the output has one row for each data row, in the order of the sheet: row k
\* of the output is made of data row k, and rows without any value are kept.
C18_OneRowPerDataRow ==
    Normalized =>
        /\ Len(ret.out) = Len(imp.rows)
        /\ \A k \in 1..Len(imp.rows) :
              IF imp.layout = "fixed"
              THEN /\ ret.out[k]["group_name"] = imp.rows[k][1].value
                   /\ ret.out[k]["russian_name"] = separate(imp.rows[k][2]).text
                   /\ ret.out[k]["latin_name"] = separate(imp.rows[k][3]).text
              ELSE \A column \in LinkableColumns :
                      Field(ret.out[k], column) = SourceCell(k, column).value

EmptyRow(row) == \A c \in 1..Len(row) : row[c].value = NULL

\* A sheet whose first row has no value and whose second row has a name, normalized.
C18_Witness ==
    /\ ret.op = "extract"
    /\ Len(imp.rows) = 2
    /\ EmptyRow(imp.rows[1])
    /\ ~EmptyRow(imp.rows[2])
    /\ Len(ret.out) = 2

(***************************************************************************)
(* update_plant called with mappings of any keys, the key column and the   *)
(* creation time included.                                                 *)
(***************************************************************************)

\* Mappings whose keys the edit form never sends.
AnyKeyInputs ==
    {[created_at |-> Some("2000-01-01")], [latin_name |-> Some("l")]}
        \cup {[id |-> Some(i)] : i \in 1..MaxId}

NextAnyKey ==
    \/ \E r \in AddNames, l \in AddLatins, c \in AddCosts : AddPlantSubmit("", r, l, c)
    \/ \E id \in 1..MaxId, d \in AnyKeyInputs : UpdatePlant(id, d)
    \/ \E id \in 1..MaxId : DeletePlant(id)

SpecAnyKey == Init /\ [][NextAnyKey]_vars

\* C19: no call of update_plant, whatever the keys of its mapping, changes the id
\* or the created_at of a stored record.
C19_UpdateKeepsIdAndCreatedAt ==
    [][ret'.op = "update_plant" =>
         /\ Ids(plants') = Ids(plants)
         /\ \A i \in Ids(plants) : plants'[i]["created_at"] = plants[i]["created_at"]]_vars

(***************************************************************************)
(* Two sessions.  get_connection is cached for the whole server, so every  *)
(* session executes and commits on the same connection, and a commit       *)
(* writes whatever that connection has pending.  While one session is in   *)
(* the import loop, another submits the add form.                          *)
(***************************************************************************)

\* The add form submitted in another session between two steps of the import.
OtherSessionAdd(group_name, russian_name, latin_name, cost) ==
    /\ imp.phase = "loop"
    /\ russian_name # ""
    /\ seq < MaxId
    /\ LET r == add_plant(plants, seq,
                          AddFormData(group_name, russian_name, latin_name, cost))
       IN /\ plants' = r.plants
          /\ seq' = r.seq
          /\ disk' = Commit(r.plants, r.seq)
          /\ everIds' = everIds \cup Ids(r.plants)
          /\ ret' = [op |-> "add_form", ok |-> r.ok, id |-> r.seq,
                     name |-> Some(russian_name),
                     before |-> NameCount(get_all_plants(plants), Some(russian_name))]
    /\ UNCHANGED imp

NextTwoSessions ==
    \/ Next
    \/ \E r \in AddNames, l \in AddLatins, c \in AddCosts : OtherSessionAdd("", r, l, c)

SpecTwoSessions == Init /\ [][NextTwoSessions]_vars

\* C20: writes of two sessions that interleave on the shared connection are each
\* atomic: what is committed while an import still has rows to handle is the other
\* session's write alone, on top of what was committed before, and never a part of
\* the import (its ReplaceAll deletion, or some of its rows).
C20_NoPartialImportCommitted ==
    [][(/\ imp.phase = "loop" /\ imp'.phase = "loop"
        /\ imp.pos <= imp.n
        /\ disk' # disk) =>
         /\ ret'.op = "add_form"
         /\ [i \in Ids(disk'.plants) \ {ret'.id} |-> disk'.plants[i]] = disk.plants]_vars

(***************************************************************************)
(* Claims about the import's counters and its frame.                       *)
(***************************************************************************)

\* C21: an import that passed the column check ends with imported + skipped +
\* errors equal to the number of rows of the sheet, and with as many stored records
\* as there were before (none in ReplaceAll mode) plus imported.
C21_CountersAddUp ==
    [][(ret'.op = "import" /\ ret'.ok = TRUE) =>
         /\ ret'.imported + ret'.skipped + Len(ret'.errors) = imp.n
         /\ Cardinality(Ids(disk'.plants)) =
              (IF imp.mode = ReplaceAll THEN 0 ELSE Cardinality(Ids(disk.plants)))
                + ret'.imported]_vars

\* An import of two rows over one stored record: one row skipped as a duplicate,
\* one imported.
C21_Witness ==
    /\ ret.op = "import" /\ ret.ok = TRUE
    /\ ret.imported = 1 /\ ret.skipped = 1
    /\ Cardinality(Ids(disk.plants)) = 2

\* C22: an import in Append mode, with the duplicate check or without, leaves every
\* record stored before it in place: at each of its steps and once committed, the
\* record is stored under the same id with the same values.
C22_AppendKeepsRecords ==
    [][(\/ imp.phase = "loop" /\ imp.mode = AppendMode
        \/ imp'.phase = "loop" /\ imp'.mode = AppendMode) =>
         \A i \in Ids(disk.plants) :
            /\ i \in Ids(plants') /\ plants'[i] = disk.plants[i]
            /\ i \in Ids(disk'.plants) /\ disk'.plants[i] = disk.plants[i]]_vars

\* An Append import without the duplicate check, all rows handled, that inserted a
\* row of the name of a stored record.
C22_Witness ==
    /\ imp.phase = "loop"
    /\ imp.mode = AppendMode
    /\ ~imp.dedup
    /\ imp.pos > imp.n
    /\ \E k \in 1..Len(imp.log) :
          /\ imp.log[k].outcome = "imported"
          /\ \E i \in Ids(disk.plants) : sql_eq(disk.plants[i]["russian_name"], imp.log[k].name)

====
